---- MODULE Spec2Model ----
(***************************************************************************)
(* Model of the digital-twin communication system: the Hamming(n,k) block  *)
(* codec (Codificacion_Hamming.py), the Huffman source coder and the       *)
(* bit/byte packer (Codificacion_Huffman.py).                              *)
(*                                                                         *)
(* Bit sequences are TLA+ sequences over {0,1}.  Python indices are        *)
(* 0-based; wherever the code stores an index (syndrome_map values, noise  *)
(* positions) the model stores the same 0-based number and adds 1 when it  *)
(* indexes a TLA+ sequence.                                                *)
(***************************************************************************)
EXTENDS Integers, Sequences, FiniteSets, TLC

VARIABLES
    codec,      \* the Hamming instance of the sender (Emisor.py: hamming)
    peer,       \* a second instance with the same (k,n) that never encodes (Receptor.py: hamming)
    tx,         \* the value returned by the last encode call, with the data it came from
    rx,         \* the bit list handed to decode, with what it was made from
    result,     \* outcome of the last Hamming decode call
    hsrc,       \* Huffman: the symbol list given to train_codebook
    codebook,   \* Huffman: outcome of train_codebook
    hbits,      \* Huffman: outcome of encode
    hout,       \* Huffman: outcome of decode
    pbits,      \* packer: the bit string given to bits_to_bytes
    packed,     \* packer: outcome of bits_to_bytes
    unpacked,   \* packer: outcome of bytes_to_bits
    channel,    \* the BinarySymmetricChannel instance (its error probability)
    emisor,     \* Emisor.py handle_connection: its buffer, and a record of what it did
    EMIT_Q,     \* Emisor.py: the queue read by the visualizer
    wire,       \* the websocket: messages sent and not yet received
    receptor    \* Receptor.py receive_message: its position and what it recovered

vars ==
    <<codec, peer, tx, rx, result, hsrc, codebook, hbits, hout, pbits, packed, unpacked,
      channel, emisor, EMIT_Q, wire, receptor>>

hammingVars == <<codec, peer, tx, rx, result, channel>>
huffmanVars == <<hsrc, codebook, hbits, hout>>
packVars == <<pbits, packed, unpacked>>
linkVars == <<emisor, EMIT_Q, wire, receptor>>

(***************************************************************************)
(* Bounds of the model.                                                    *)
(***************************************************************************)
\* every bit sequence up to this length is an input of encode
MaxLen == 4
\* the channel flips at most this many bits of a stream (or all of them)
MaxFlips == 2
\* longest bit list handed to decode that did not come from encode
MaxRecv == 15

Bit == {0, 1}

BitSeqs(L) == [1..L -> Bit]

BitSeqsUpTo(L) == UNION {BitSeqs(i) : i \in 0..L}

Min(a, b) == IF a < b THEN a ELSE b

\* a is a prefix of b (or equal to it)
IsPrefix(a, b) == Len(a) <= Len(b) /\ SubSeq(b, 1, Len(a)) = a

RECURSIVE Pow2(_)
Pow2(e) == IF e <= 0 THEN 1 ELSE 2 * Pow2(e - 1)

RECURSIVE SumSeq(_)
SumSeq(s) == IF Len(s) = 0 THEN 0 ELSE Head(s) + SumSeq(Tail(s))

\* Python s[:c] for c >= 0
Take(s, c) == SubSeq(s, 1, Min(c, Len(s)))

(***************************************************************************)
(* numpy helpers used by the Hamming class.  A matrix is a sequence of     *)
(* rows.                                                                   *)
(***************************************************************************)
eye(m) == [i \in 1..m |-> [j \in 1..m |-> IF i = j THEN 1 ELSE 0]]

\* M.T for a matrix M with `cols` columns
Transpose(M, cols) == [j \in 1..cols |-> [i \in 1..Len(M) |-> M[i][j]]]

\* np.hstack((A, B)) of two 2-D arrays; numpy raises ValueError unless the row counts agree
hstack_ok(A, B) == Len(A) = Len(B)

hstack(A, B) == [i \in 1..Len(A) |-> A[i] \o B[i]]

\* np.dot(v, M) % 2 : row vector times matrix
dot_vec_mat(v, M, cols) ==
    [j \in 1..cols |-> SumSeq([i \in 1..Len(v) |-> v[i] * M[i][j]]) % 2]

\* np.dot(M, v) % 2 : matrix times vector
dot_mat_vec(M, v) ==
    [r \in 1..Len(M) |-> SumSeq([j \in 1..Len(v) |-> M[r][j] * v[j]]) % 2]

(***************************************************************************)
(* Hamming.__init__ and the construction helpers.                          *)
(***************************************************************************)
check_valid_parameters(n, k) == n > k

\* the inner loop of _get_non_zero_vectors: vector.insert(0, temp % 2); temp //= 2
RECURSIVE to_vector(_, _)
to_vector(temp, count) ==
    IF count = 0 THEN <<>>
    ELSE Append(to_vector(temp \div 2, count - 1), temp % 2)

\* variant: the test `if not vector in I_m.tolist()` is left out
get_non_zero_vectors_all(m) == [i \in 1..(Pow2(m) - 1) |-> to_vector(i, m)]

get_non_zero_vectors(m) ==
    LET I_m == eye(m)
        all == [i \in 1..(Pow2(m) - 1) |-> to_vector(i, m)]
        NotInI(v) == \A r \in 1..m : I_m[r] # v
    IN  SelectSeq(all, NotInI)

\* variant: H = [I_m | P^T], the identity placed first
build_H_identity_first(m) ==
    LET parity_matrix == get_non_zero_vectors(m)
    IN  IF Len(parity_matrix) = 0
        THEN [ok |-> FALSE, H |-> <<>>, P |-> <<>>]
        ELSE [ok |-> TRUE,
              H |-> hstack(eye(m), Transpose(parity_matrix, m)),
              P |-> parity_matrix]

\* _build_H: returns H (m x n) and P; np.hstack fails when no vector was collected
\* (np.array([]) is one-dimensional)
build_H(m) ==
    LET parity_matrix == get_non_zero_vectors(m)
    IN  IF Len(parity_matrix) = 0
        THEN [ok |-> FALSE, H |-> <<>>, P |-> <<>>]
        ELSE [ok |-> TRUE,
              H |-> hstack(Transpose(parity_matrix, m), eye(m)),
              P |-> parity_matrix]

\* _build_G: np.hstack((np.eye(k), P))
build_G(k, P) ==
    IF hstack_ok(eye(k), P)
    THEN [ok |-> TRUE, G |-> hstack(eye(k), P)]
    ELSE [ok |-> FALSE, G |-> <<>>]

\* _check_valid_G_H: np.all(np.dot(G, H.T) % 2 == 0)
check_valid_G_H(G, H) ==
    \A i \in 1..Len(G) : \A r \in 1..Len(H) :
        SumSeq([j \in 1..Len(H[r]) |-> G[i][j] * H[r][j]]) % 2 = 0

Column(H, col) == [r \in 1..Len(H) |-> H[r][col + 1]]

\* variant: the columns numbered from 1
RECURSIVE build_syndrome_map_from_one(_, _, _, _)
build_syndrome_map_from_one(H, n, col, map) ==
    IF col >= n THEN map
    ELSE LET syndrome == Column(H, col)
         IN  build_syndrome_map_from_one(H, n, col + 1,
                 [s \in (DOMAIN map) \cup {syndrome} |->
                     IF s = syndrome THEN col + 1 ELSE map[s]])

\* _build_syndrome_map: for col in range(n): syndrome_map[tuple(H[:, col])] = col
RECURSIVE build_syndrome_map_from(_, _, _, _)
build_syndrome_map_from(H, n, col, map) ==
    IF col >= n THEN map
    ELSE LET syndrome == Column(H, col)
         IN  build_syndrome_map_from(H, n, col + 1,
                 [s \in (DOMAIN map) \cup {syndrome} |->
                     IF s = syndrome THEN col ELSE map[s]])

\* variant: for col in range(n - 1), the last column left out
build_syndrome_map_short(H, n) == build_syndrome_map_from(H, n - 1, 0, <<>>)

build_syndrome_map(H, n) == build_syndrome_map_from(H, n, 0, <<>>)

\* what is left of an instance whose __init__ raised
FailedInstance(k, n, err) ==
    [constructed |-> FALSE, error |-> err, n |-> n, k |-> k, m |-> 0,
     H |-> <<>>, P |-> <<>>, G |-> <<>>, syndrome_map |-> <<>>, data_length |-> 0]

Hamming(k, n) ==
    IF ~check_valid_parameters(n, k) THEN FailedInstance(k, n, "AssertionError")
    ELSE
    LET m == n - k
        HP == build_H(m)
    IN  IF ~HP.ok THEN FailedInstance(k, n, "ValueError")
        ELSE
        LET GG == build_G(k, HP.P)
        IN  IF ~GG.ok THEN FailedInstance(k, n, "ValueError")
            ELSE IF ~check_valid_G_H(GG.G, HP.H)
            THEN FailedInstance(k, n, "AssertionError")
            ELSE [constructed |-> TRUE, error |-> "", n |-> n, k |-> k, m |-> m,
                  H |-> HP.H, P |-> HP.P, G |-> GG.G,
                  syndrome_map |-> build_syndrome_map(HP.H, n),
                  data_length |-> 0]

(***************************************************************************)
(* Hamming.encode and Hamming.decode.                                      *)
(***************************************************************************)
zeros(c) == [i \in 1..c |-> 0]

\* variant: np.concatenate((padding, data)), the zeros placed before the data
apply_padding_left(self, data_bits) ==
    LET remainder == Len(data_bits) % self.k
    IN  IF remainder # 0
        THEN zeros(self.k - remainder) \o data_bits
        ELSE data_bits

\* _apply_padding
apply_padding(self, data_bits) ==
    LET remainder == Len(data_bits) % self.k
    IN  IF remainder # 0
        THEN data_bits \o zeros(self.k - remainder)
        ELSE data_bits

\* the loop of encode over the blocks i, i+1, ..., n_blocks-1
RECURSIVE encode_blocks(_, _, _, _)
encode_blocks(self, data, i, n_blocks) ==
    IF i >= n_blocks THEN <<>>
    ELSE LET block == SubSeq(data, i * self.k + 1, (i + 1) * self.k)
             encoded_block == dot_vec_mat(block, self.G, self.n)
         IN  encoded_block \o encode_blocks(self, data, i + 1, n_blocks)

\* the value encode leaves in self.data_length
encode_data_length(data_bits) == Len(data_bits)

\* the value encode returns
encode_bits(self, data_bits) ==
    LET data == apply_padding(self, data_bits)
        n_blocks == Len(data) \div self.k
    IN  encode_blocks(self, data, 0, n_blocks)

\* variant: the block length written as the literal 7 (as in channel_encoder.py)
decode_misaligned_7(self, received) == Len(received) % 7 # 0

\* decode's guard: len(received) % n != 0 raises ValueError
decode_misaligned(self, received) == Len(received) % self.n # 0

\* variant: the error is counted but the bit is not flipped
decode_block_detect_only(self, block) ==
    LET syndrome == dot_mat_vec(self.H, block)
        any == \E r \in 1..Len(syndrome) : syndrome[r] # 0
    IN  IF any /\ syndrome \in DOMAIN self.syndrome_map
        THEN [block |-> block, corrected |-> 1]
        ELSE [block |-> block, corrected |-> 0]

\* variant: the bit is flipped but corrected_errors is not incremented
decode_block_uncounted(self, block) ==
    LET syndrome == dot_mat_vec(self.H, block)
        any == \E r \in 1..Len(syndrome) : syndrome[r] # 0
    IN  IF any /\ syndrome \in DOMAIN self.syndrome_map
        THEN LET error_pos == self.syndrome_map[syndrome]
             IN  [block |-> [block EXCEPT ![error_pos + 1] = 1 - block[error_pos + 1]],
                  corrected |-> 0]
        ELSE [block |-> block, corrected |-> 0]

\* one iteration of decode's loop: the block after correction and whether it was corrected
decode_block(self, block) ==
    LET syndrome == dot_mat_vec(self.H, block)
        any == \E r \in 1..Len(syndrome) : syndrome[r] # 0
    IN  IF any /\ syndrome \in DOMAIN self.syndrome_map
        THEN LET error_pos == self.syndrome_map[syndrome]
             IN  [block |-> [block EXCEPT ![error_pos + 1] = 1 - block[error_pos + 1]],
                  corrected |-> 1]
        ELSE [block |-> block, corrected |-> 0]

\* variant: the data bits are taken from the end of the block (block[n-k:n], as the
\* decoder of channel_encoder.py does) although G = [I_k | P] puts them first
RECURSIVE decode_blocks_tail(_, _, _, _)
decode_blocks_tail(self, received, i, n_blocks) ==
    IF i >= n_blocks THEN [bits |-> <<>>, corrected |-> 0, received |-> <<>>]
    ELSE LET block == SubSeq(received, i * self.n + 1, (i + 1) * self.n)
             d == decode_block(self, block)
             rest == decode_blocks_tail(self, received, i + 1, n_blocks)
         IN  [bits |-> SubSeq(d.block, self.n - self.k + 1, self.n) \o rest.bits,
              corrected |-> d.corrected + rest.corrected,
              received |-> d.block \o rest.received]

\* the loop of decode over the blocks i, ..., n_blocks-1: decoded_bits, corrected_errors
\* and the array `received` as the loop leaves it (block is a view of it, so the
\* corrections are written into it)
RECURSIVE decode_blocks(_, _, _, _)
decode_blocks(self, received, i, n_blocks) ==
    IF i >= n_blocks THEN [bits |-> <<>>, corrected |-> 0, received |-> <<>>]
    ELSE LET block == SubSeq(received, i * self.n + 1, (i + 1) * self.n)
             d == decode_block(self, block)
             rest == decode_blocks(self, received, i + 1, n_blocks)
         IN  [bits |-> SubSeq(d.block, 1, self.k) \o rest.bits,
              corrected |-> d.corrected + rest.corrected,
              received |-> d.block \o rest.received]

\* variant: the padding is not removed
restore_data_all(self, decoded_bits) == decoded_bits

\* "Deshacer el padding": decoded_bits[: self.data_length]
restore_data(self, decoded_bits) == Take(decoded_bits, self.data_length)

\* variant: received = np.asarray(received_bits), which shares the caller's array
caller_array_alias(received_bits, received) == received

\* the caller's array after the call: received = np.array(received_bits) is a copy, so
\* what decode writes into `received` does not reach it
caller_array(received_bits, received) == received_bits

\* decode(self, received_bits): an error, or (restored_data, corrected_errors); with
\* them the local array `received` at the end of the call and the caller's array
decode(self, received_bits) ==
    IF decode_misaligned(self, received_bits)
    THEN [status |-> "error", error |-> "ValueError", bits |-> <<>>, corrected |-> 0,
          received |-> received_bits,
          argument |-> caller_array(received_bits, received_bits)]
    ELSE LET n_blocks == Len(received_bits) \div self.n
             d == decode_blocks(self, received_bits, 0, n_blocks)
         IN  [status |-> "ok", error |-> "",
              bits |-> restore_data(self, d.bits), corrected |-> d.corrected,
              received |-> d.received,
              argument |-> caller_array(received_bits, d.received)]

\* the keyword arguments decode accepts besides received_bits: none
decode_keywords == {}

\* a call hamming.decode(received, **keywords): Python raises TypeError for a keyword
\* the signature does not have
decode_call(self, received, keywords) ==
    IF keywords \subseteq decode_keywords
    THEN decode(self, received)
    ELSE [status |-> "error", error |-> "TypeError", bits |-> <<>>, corrected |-> 0,
          received |-> <<>>, argument |-> received]

(***************************************************************************)
(* BinarySymmetricChannel.transmit: received = (bits + noise) % 2.  The    *)
(* noise vector is given as the set of 0-based positions where it is 1.    *)
(***************************************************************************)
\* variant: received = bits | noise
transmit_or(bits, noise) ==
    [i \in 1..Len(bits) |-> IF (i - 1) \in noise THEN 1 ELSE bits[i]]

transmit(bits, noise) ==
    [i \in 1..Len(bits) |-> (bits[i] + (IF (i - 1) \in noise THEN 1 ELSE 0)) % 2]

\* np.sum(noise), the second value transmit returns
noise_sum(noise, size) == SumSeq([i \in 1..size |-> IF (i - 1) \in noise THEN 1 ELSE 0])

\* BinarySymmetricChannel(error_probability); the probability is kept in percent
BinarySymmetricChannel(error_probability) == [p |-> error_probability]

(***************************************************************************)
(* Codificacion_Huffman.py.  A bit string is a sequence over {0,1}.  A     *)
(* Python dict is a sequence of [key, val] entries in insertion order.     *)
(* An optional value (None or x) is the sequence <<>> or <<x>>.            *)
(***************************************************************************)
None == <<>>

Some(x) == <<x>>

\* _Node(symbol, freq, left, right)
Node(symbol, freq, left, right) ==
    [symbol |-> symbol, freq |-> freq, left |-> left, right |-> right]

\* variant: the comparison reversed (a max-heap)
lt_reversed(a, b) == a.freq > b.freq

\* _Node.__lt__
lt(a, b) == a.freq < b.freq

dict_has(d, key) == \E i \in 1..Len(d) : d[i].key = key

dict_get(d, key) == d[CHOOSE i \in 1..Len(d) : d[i].key = key].val

\* d[key] = val : an existing key keeps its place, a new key goes last
dict_set(d, key, val) ==
    IF dict_has(d, key)
    THEN [i \in 1..Len(d) |-> IF d[i].key = key THEN [key |-> key, val |-> val] ELSE d[i]]
    ELSE Append(d, [key |-> key, val |-> val])

\* collections.Counter(data): symbol -> number of occurrences, in order of first occurrence
RECURSIVE Counter_from(_, _, _)
Counter_from(data, i, freqs) ==
    IF i > Len(data) THEN freqs
    ELSE LET sym == data[i]
             cnt == IF dict_has(freqs, sym) THEN dict_get(freqs, sym) ELSE 0
         IN  Counter_from(data, i + 1, dict_set(freqs, sym, cnt + 1))

Counter(data) == Counter_from(data, 1, <<>>)

\* heapq._siftdown(heap, startpos, pos); positions are 0-based as in heapq
RECURSIVE siftdown_loop(_, _, _, _)
siftdown_loop(heap, startpos, pos, newitem) ==
    IF pos > startpos
    THEN LET parentpos == (pos - 1) \div 2
             parent == heap[parentpos + 1]
         IN  IF lt(newitem, parent)
             THEN siftdown_loop([heap EXCEPT ![pos + 1] = parent], startpos, parentpos, newitem)
             ELSE [heap EXCEPT ![pos + 1] = newitem]
    ELSE [heap EXCEPT ![pos + 1] = newitem]

siftdown(heap, startpos, pos) == siftdown_loop(heap, startpos, pos, heap[pos + 1])

\* heapq._siftup(heap, pos): bubble the smaller child up to a leaf, then sift the item down
RECURSIVE siftup_loop(_, _, _, _)
siftup_loop(heap, endpos, pos, childpos) ==
    IF childpos < endpos
    THEN LET rightpos == childpos + 1
             c == IF rightpos < endpos /\ ~lt(heap[childpos + 1], heap[rightpos + 1])
                  THEN rightpos ELSE childpos
         IN  siftup_loop([heap EXCEPT ![pos + 1] = heap[c + 1]], endpos, c, 2 * c + 1)
    ELSE [heap |-> heap, pos |-> pos]

siftup(heap, pos) ==
    LET newitem == heap[pos + 1]
        r == siftup_loop(heap, Len(heap), pos, 2 * pos + 1)
    IN  siftdown([r.heap EXCEPT ![r.pos + 1] = newitem], pos, r.pos)

\* heapq.heapify(x): for i in reversed(range(n // 2)): _siftup(x, i)
RECURSIVE heapify_from(_, _)
heapify_from(x, i) == IF i < 0 THEN x ELSE heapify_from(siftup(x, i), i - 1)

heapify(x) == heapify_from(x, (Len(x) \div 2) - 1)

\* heapq.heappop(heap): the item returned and the heap left
heappop(heap) ==
    LET lastelt == heap[Len(heap)]
        rest == SubSeq(heap, 1, Len(heap) - 1)
    IN  IF Len(rest) > 0
        THEN [item |-> rest[1], heap |-> siftup([rest EXCEPT ![1] = lastelt], 0)]
        ELSE [item |-> lastelt, heap |-> rest]

\* heapq.heappush(heap, item)
heappush(heap, item) == siftdown(Append(heap, item), 0, Len(heap))

\* the while loop of build_huffman_tree
RECURSIVE merge_loop(_)
merge_loop(heap) ==
    IF Len(heap) > 1
    THEN LET p1 == heappop(heap)
             p2 == heappop(p1.heap)
             n1 == p1.item
             n2 == p2.item
             merged == Node(None, n1.freq + n2.freq, Some(n1), Some(n2))
         IN  merge_loop(heappush(p2.heap, merged))
    ELSE heap[1]

build_huffman_tree(freqs) ==
    LET heap == [i \in 1..Len(freqs) |-> Node(Some(freqs[i].key), freqs[i].val, None, None)]
    IN  IF Len(heap) = 1
        THEN Node(None, heap[1].freq, Some(heap[1]), None)
        ELSE merge_loop(heapify(heap))

\* codebook[node.symbol] = prefix or "0"
leaf_code(prefix) == IF Len(prefix) = 0 THEN <<0>> ELSE prefix

\* variant: the right child is visited with the parent's prefix
RECURSIVE traverse_same_prefix(_, _, _)
traverse_same_prefix(node, prefix, cb) ==
    IF node.symbol # None
    THEN dict_set(cb, node.symbol[1], leaf_code(prefix))
    ELSE LET afterLeft == traverse_same_prefix(node.left[1], Append(prefix, 0), cb)
         IN  IF node.right # None
             THEN traverse_same_prefix(node.right[1], prefix, afterLeft)
             ELSE afterLeft

\* variant: the edge labels swapped, "1" to the left child and "0" to the right
RECURSIVE traverse_swapped(_, _, _)
traverse_swapped(node, prefix, cb) ==
    IF node.symbol # None
    THEN dict_set(cb, node.symbol[1], leaf_code(prefix))
    ELSE LET afterLeft == traverse_swapped(node.left[1], Append(prefix, 1), cb)
         IN  IF node.right # None
             THEN traverse_swapped(node.right[1], Append(prefix, 0), afterLeft)
             ELSE afterLeft

\* traverse(node, prefix) of build_codebook, threading the codebook
RECURSIVE traverse(_, _, _)
traverse(node, prefix, cb) ==
    IF node.symbol # None
    THEN dict_set(cb, node.symbol[1], leaf_code(prefix))
    ELSE LET afterLeft == traverse(node.left[1], Append(prefix, 0), cb)
         IN  IF node.right # None
             THEN traverse(node.right[1], Append(prefix, 1), afterLeft)
             ELSE afterLeft

build_codebook(root) == traverse(root, <<>>, <<>>)

\* variant: empty data gives an empty codebook instead of an error
train_codebook_empty_ok(data) ==
    LET freqs == Counter(data)
    IN  IF Len(freqs) = 0
        THEN [status |-> "ok", error |-> "", codebook |-> <<>>]
        ELSE [status |-> "ok", error |-> "", codebook |-> build_codebook(build_huffman_tree(freqs))]

\* train_codebook(data): ValueError on empty data
train_codebook(data) ==
    LET freqs == Counter(data)
    IN  IF Len(freqs) = 0
        THEN [status |-> "error", error |-> "ValueError", codebook |-> <<>>]
        ELSE [status |-> "ok", error |-> "", codebook |-> build_codebook(build_huffman_tree(freqs))]

\* variant: codebook.get(sym, ""), a missing symbol is skipped
RECURSIVE huf_encode_from_skip(_, _, _, _)
huf_encode_from_skip(data, cb, i, acc) ==
    IF i > Len(data)
    THEN [status |-> "ok", error |-> "", symbol |-> None, bits |-> acc]
    ELSE IF ~dict_has(cb, data[i])
         THEN huf_encode_from_skip(data, cb, i + 1, acc)
         ELSE huf_encode_from_skip(data, cb, i + 1, acc \o dict_get(cb, data[i]))

\* encode(data, codebook): "".join(codebook[sym] for sym in data); a missing symbol
\* raises ValueError naming it
RECURSIVE huf_encode_from(_, _, _, _)
huf_encode_from(data, cb, i, acc) ==
    IF i > Len(data)
    THEN [status |-> "ok", error |-> "", symbol |-> None, bits |-> acc]
    ELSE IF ~dict_has(cb, data[i])
         THEN [status |-> "error", error |-> "ValueError", symbol |-> Some(data[i]), bits |-> <<>>]
         ELSE huf_encode_from(data, cb, i + 1, acc \o dict_get(cb, data[i]))

huf_encode(data, cb) == huf_encode_from(data, cb, 1, <<>>)

\* rev = {code: sym for sym, code in codebook.items()}
RECURSIVE reverse_from(_, _, _)
reverse_from(cb, i, rev) ==
    IF i > Len(cb) THEN rev
    ELSE reverse_from(cb, i + 1, dict_set(rev, cb[i].val, cb[i].key))

reverse_codebook(cb) == reverse_from(cb, 1, <<>>)

\* variant: current is not reset after a symbol is emitted
RECURSIVE huf_decode_from_no_reset(_, _, _, _, _)
huf_decode_from_no_reset(bits, rev, i, current, decoded) ==
    IF i > Len(bits) THEN [current |-> current, decoded |-> decoded]
    ELSE LET cur == Append(current, bits[i])
         IN  IF dict_has(rev, cur)
             THEN huf_decode_from_no_reset(bits, rev, i + 1, cur, Append(decoded, dict_get(rev, cur)))
             ELSE huf_decode_from_no_reset(bits, rev, i + 1, cur, decoded)

\* variant: after a symbol is emitted current restarts with the bit just read
RECURSIVE huf_decode_from_keep_bit(_, _, _, _, _)
huf_decode_from_keep_bit(bits, rev, i, current, decoded) ==
    IF i > Len(bits) THEN [current |-> current, decoded |-> decoded]
    ELSE LET cur == Append(current, bits[i])
         IN  IF dict_has(rev, cur)
             THEN huf_decode_from_keep_bit(bits, rev, i + 1, <<bits[i]>>,
                                           Append(decoded, dict_get(rev, cur)))
             ELSE huf_decode_from_keep_bit(bits, rev, i + 1, cur, decoded)

\* the for loop of decode: current accumulates bits until it is a key of rev
RECURSIVE huf_decode_from(_, _, _, _, _)
huf_decode_from(bits, rev, i, current, decoded) ==
    IF i > Len(bits) THEN [current |-> current, decoded |-> decoded]
    ELSE LET cur == Append(current, bits[i])
         IN  IF dict_has(rev, cur)
             THEN huf_decode_from(bits, rev, i + 1, <<>>, Append(decoded, dict_get(rev, cur)))
             ELSE huf_decode_from(bits, rev, i + 1, cur, decoded)

\* variant: the test `if current` is left out
huf_decode_unchecked(bits, cb) ==
    LET r == huf_decode_from(bits, reverse_codebook(cb), 1, <<>>, <<>>)
    IN  [status |-> "ok", error |-> "", symbols |-> r.decoded]

\* decode(bits, codebook): ValueError when bits are left over
huf_decode(bits, cb) ==
    LET r == huf_decode_from(bits, reverse_codebook(cb), 1, <<>>, <<>>)
    IN  IF Len(r.current) # 0
        THEN [status |-> "error", error |-> "ValueError", symbols |-> <<>>]
        ELSE [status |-> "ok", error |-> "", symbols |-> r.decoded]

(***************************************************************************)
(* bits_to_bytes / bytes_to_bits.  A bytes object is a sequence of         *)
(* integers 0..255.                                                        *)
(***************************************************************************)
\* variant: the first bit of the chunk taken as the least significant
RECURSIVE int_base2_lsb(_)
int_base2_lsb(chunk) ==
    IF Len(chunk) = 0 THEN 0
    ELSE chunk[1] + 2 * int_base2_lsb(SubSeq(chunk, 2, Len(chunk)))

\* int(byte_chunk, 2)
RECURSIVE int_base2(_)
int_base2(chunk) ==
    IF Len(chunk) = 0 THEN 0
    ELSE 2 * int_base2(SubSeq(chunk, 1, Len(chunk) - 1)) + chunk[Len(chunk)]

\* the binary digits of a non-negative integer, most significant first ("0" for 0)
RECURSIVE bin_digits(_)
bin_digits(v) == IF v < 2 THEN <<v>> ELSE Append(bin_digits(v \div 2), v % 2)

\* variant: f"{byte:b}", no zero padding
format_b(byte) == bin_digits(byte)

\* f"{byte:08b}": the digits, left-padded with zeros to width 8
format_08b(byte) ==
    LET d == bin_digits(byte)
    IN  IF Len(d) < 8 THEN zeros(8 - Len(d)) \o d ELSE d

RECURSIVE pack_chunks(_, _)
pack_chunks(bits_padded, i) ==
    IF i >= Len(bits_padded) THEN <<>>
    ELSE <<int_base2(SubSeq(bits_padded, i + 1, Min(i + 8, Len(bits_padded))))>>
         \o pack_chunks(bits_padded, i + 8)

\* bits_to_bytes(bits) -> (bytes, padding)
bits_to_bytes(bits) ==
    IF Len(bits) = 0 THEN [bytes |-> <<>>, padding |-> 0]
    ELSE LET padding == (8 - (Len(bits) % 8)) % 8
             bits_padded == bits \o zeros(padding)
         IN  [bytes |-> pack_chunks(bits_padded, 0), padding |-> padding]

RECURSIVE join_bytes(_)
join_bytes(data) ==
    IF Len(data) = 0 THEN <<>> ELSE format_08b(Head(data)) \o join_bytes(Tail(data))

\* Python bits[:-padding] for padding > 0
drop_last(bits, padding) == SubSeq(bits, 1, Len(bits) - padding)

\* bytes_to_bits(data, padding): never raises
bytes_to_bits(data, padding) ==
    LET bits == join_bytes(data)
    IN  [status |-> "ok", error |-> "",
         bits |-> IF padding # 0 THEN drop_last(bits, padding) ELSE bits]

(***************************************************************************)
(* Inputs of the model.                                                    *)
(***************************************************************************)
\* (k, n) pairs a Hamming instance is constructed with
FullParams == {<<1, 3>>, <<4, 7>>, <<11, 15>>, <<26, 31>>}

SmallParams == {<<1, 3>>, <<4, 7>>}

\* n <= k, m = 1, k above and below 2^m - m - 1
OtherParams ==
    {<<4, 4>>, <<7, 4>>, <<1, 2>>, <<5, 7>>, <<3, 6>>, <<2, 5>>, <<2, 4>>, <<5, 8>>}

ones(c) == [i \in 1..c |-> 1]

alternating(c) == [i \in 1..c |-> i % 2]

last_one(c) == [i \in 1..c |-> IF i = c THEN 1 ELSE 0]

\* data given to encode: every bit sequence up to MaxLen, and for the lengths k-1, k,
\* k+1 beyond MaxLen three patterns each
DataSet(k) ==
    BitSeqsUpTo(MaxLen) \cup
    UNION {{ones(L), alternating(L), last_one(L)} : L \in {x \in {k - 1, k, k + 1} : x > MaxLen}}

\* data of more than one block: k+2 bits (6 bits for k = 4), 2k and 2k+1 bits
LongData(k) ==
    UNION {{ones(L), alternating(L), last_one(L)} : L \in {k + 2, 2 * k, 2 * k + 1}}

\* bit lists handed to decode that encode did not produce
RawSet == UNION {{zeros(L), ones(L)} : L \in 0..MaxRecv}

RECURSIVE SubsetsUpTo(_, _)
SubsetsUpTo(S, c) ==
    IF c = 0 THEN {{}}
    ELSE LET prev == SubsetsUpTo(S, c - 1)
         IN  prev \cup {x \cup {e} : x \in prev, e \in S}

\* noise vectors of the channel: at most MaxFlips ones, or all ones (p = 1)
NoiseSet(len) == SubsetsUpTo(0..(len - 1), MaxFlips) \cup {0..(len - 1)}

\* np.random.choice([0, 1], size=size, p=[1 - p, p]): the noise vectors it can return.
\* With p = 0 only the zero vector, with p = 1 only the all-ones vector; otherwise any
\* vector (here those of NoiseSet).
choice(p, size) ==
    IF p = 0 THEN {{}}
    ELSE IF p = 100 THEN {0..(size - 1)}
    ELSE NoiseSet(size)

\* error probabilities of the tests, in percent: 0.0, 0.1 and 1.0
Probabilities == {0, 10, 100}

NoTx == [full |-> FALSE, data |-> <<>>, bits |-> <<>>]

NoRx ==
    [full |-> FALSE, origin |-> "none", data |-> <<>>, bits |-> <<>>, noise |-> {},
     flips |-> 0]

\* length is the value of self.data_length the decode call read
NoResult ==
    [status |-> "none", by |-> "none", error |-> "", bits |-> <<>>, corrected |-> 0,
     length |-> 0, received |-> <<>>]

NoOutcome == [status |-> "none"]

(***************************************************************************)
(* The Hamming codec in use: a sender instance that encodes, a channel,    *)
(* and decode calls on the sender instance and on a second instance.       *)
(***************************************************************************)
HuffmanIdle ==
    /\ hsrc = <<>>
    /\ codebook = NoOutcome
    /\ hbits = NoOutcome
    /\ hout = NoOutcome

PackIdle ==
    /\ pbits = <<>>
    /\ packed = NoOutcome
    /\ unpacked = NoOutcome

\* the sender and the receiver before any connection
NoEmisor == [pc |-> "none"]

NoReceptor == [pc |-> "none"]

LinkIdle ==
    /\ emisor = NoEmisor
    /\ EMIT_Q = <<>>
    /\ wire = <<>>
    /\ receptor = NoReceptor

HammingIdle ==
    /\ codec = FailedInstance(0, 0, "")
    /\ peer = FailedInstance(0, 0, "")
    /\ channel = BinarySymmetricChannel(0)
    /\ tx = NoTx
    /\ rx = NoRx
    /\ result = NoResult

\* hamming = Hamming(k=.., n=..) in the sender and in the receiver, and
\* channel = BinarySymmetricChannel(error_probability=..)
InitHammingWith(params, probabilities) ==
    /\ \E p \in params :
          /\ codec = Hamming(p[1], p[2])
          /\ peer = Hamming(p[1], p[2])
    /\ \E q \in probabilities : channel = BinarySymmetricChannel(q)
    /\ tx = NoTx
    /\ rx = NoRx
    /\ result = NoResult
    /\ HuffmanIdle
    /\ PackIdle
    /\ LinkIdle

\* a perfect channel
InitHamming(params) == InitHammingWith(params, {0})

\* encoded = hamming.encode(data) on the sender instance
Encode(data) ==
    /\ codec.constructed
    /\ codec' = [codec EXCEPT !.data_length = encode_data_length(data)]
    /\ tx' = [full |-> TRUE, data |-> data, bits |-> encode_bits(codec, data)]
    /\ UNCHANGED <<peer, rx, result>>
    /\ UNCHANGED <<channel, huffmanVars, packVars, linkVars>>

\* received, _ = channel.transmit(encoded)
Transmit(noise) ==
    /\ tx.full
    /\ noise \in choice(channel.p, Len(tx.bits))
    /\ rx' = [full |-> TRUE, origin |-> "encode", data |-> tx.data,
              bits |-> transmit(tx.bits, noise), noise |-> noise,
              flips |-> noise_sum(noise, Len(tx.bits))]
    /\ result' = NoResult
    /\ UNCHANGED <<codec, peer, tx>>
    /\ UNCHANGED <<channel, huffmanVars, packVars, linkVars>>

\* a bit list that no encode call produced reaches the receiver
Inject(r) ==
    /\ codec.constructed
    /\ rx' = [full |-> TRUE, origin |-> "raw", data |-> <<>>, bits |-> r, noise |-> {},
              flips |-> 0]
    /\ result' = NoResult
    /\ UNCHANGED <<codec, peer, tx>>
    /\ UNCHANGED <<channel, huffmanVars, packVars, linkVars>>

Instance(who) == IF who = "codec" THEN codec ELSE peer

\* decoded, errors = hamming.decode(received) on the instance `who`
Decode(who) ==
    /\ rx.full
    /\ LET r == decode(Instance(who), rx.bits)
       IN  /\ result' = [status |-> r.status, by |-> who, error |-> r.error,
                         bits |-> r.bits, corrected |-> r.corrected,
                         length |-> Instance(who).data_length,
                         received |-> r.received]
           /\ rx' = [rx EXCEPT !.bits = r.argument]
    /\ UNCHANGED <<codec, peer, tx>>
    /\ UNCHANGED <<channel, huffmanVars, packVars, linkVars>>

\* Receptor.py: hamming.decode(received_hamming_bits, data_length=message.get("huffman_length"))
ReceptorDecode ==
    /\ rx.full
    /\ LET r == decode_call(peer, rx.bits, {"data_length"})
       IN  /\ result' = [status |-> r.status, by |-> "receptor", error |-> r.error,
                         bits |-> r.bits, corrected |-> r.corrected,
                         length |-> peer.data_length,
                         received |-> r.received]
           /\ rx' = [rx EXCEPT !.bits = r.argument]
    /\ UNCHANGED <<codec, peer, tx>>
    /\ UNCHANGED <<channel, huffmanVars, packVars, linkVars>>

Init == InitHamming(SmallParams \cup OtherParams)

Next ==
    \/ \E data \in DataSet(codec.k) : Encode(data)
    \/ Transmit({})
    \/ \E r \in RawSet : Inject(r)
    \/ Decode("codec")
    \/ Decode("peer")
    \/ ReceptorDecode

\* sender reuse: encode calls interleaved with noiseless transmissions and decode calls
Spec == Init /\ [][Next]_vars

SendOne(data) == ~tx.full /\ Encode(data)

TransmitOnce(noise) == ~rx.full /\ Transmit(noise)

\* one message, no noise, every codec the tests construct
InitRoundTrip == InitHamming(FullParams \cup OtherParams)

NextRoundTrip ==
    \/ \E data \in DataSet(codec.k) \cup LongData(codec.k) : SendOne(data)
    \/ TransmitOnce({})
    \/ Decode("codec")
    \/ Decode("peer")

SpecRoundTrip == InitRoundTrip /\ [][NextRoundTrip]_vars

\* one message, and bit lists of any length handed to decode
NextReceive ==
    \/ \E data \in DataSet(codec.k) : SendOne(data)
    \/ TransmitOnce({})
    \/ \E r \in RawSet : Inject(r)
    \/ Decode("codec")
    \/ Decode("peer")

SpecReceive == Init /\ [][NextReceive]_vars

\* one message through a noisy channel
InitChannel == InitHammingWith(SmallParams, Probabilities)

NextChannel ==
    \/ \E data \in DataSet(codec.k) : SendOne(data)
    \/ \E noise \in NoiseSet(Len(tx.bits)) : TransmitOnce(noise)
    \/ Decode("codec")
    \/ Decode("peer")

SpecChannel == InitChannel /\ [][NextChannel]_vars

(***************************************************************************)
(* The Huffman coder in use, as in Emisor.py: train on a block of symbols, *)
(* encode that block with the codebook, decode the bit string.             *)
(***************************************************************************)
Symbols == {0, 2, 5, 9}

\* longest symbol list given to train_codebook
MaxSeq == 6

SymbolSeqs == UNION {[1..L -> Symbols] : L \in 0..MaxSeq}

InitHuffman ==
    /\ HuffmanIdle
    /\ HammingIdle
    /\ PackIdle
    /\ LinkIdle

\* codebook = train_codebook(fuente)
Train(data) ==
    /\ codebook.status = "none"
    /\ hsrc' = data
    /\ codebook' = train_codebook(data)
    /\ UNCHANGED <<hbits, hout>>
    /\ UNCHANGED <<hammingVars, packVars, linkVars>>

\* encoded = huf_encode(fuente, codebook)
HufEncode ==
    /\ codebook.status = "ok"
    /\ hbits' = huf_encode(hsrc, codebook.codebook)
    /\ UNCHANGED <<hsrc, codebook, hout>>
    /\ UNCHANGED <<hammingVars, packVars, linkVars>>

\* decoded = huf_decode(encoded, codebook)
HufDecode ==
    /\ hbits.status = "ok"
    /\ hout' = huf_decode(hbits.bits, codebook.codebook)
    /\ UNCHANGED <<hsrc, codebook, hbits>>
    /\ UNCHANGED <<hammingVars, packVars, linkVars>>

NextHuffman ==
    \/ \E data \in SymbolSeqs : Train(data)
    \/ HufEncode
    \/ HufDecode

SpecHuffman == InitHuffman /\ [][NextHuffman]_vars

(***************************************************************************)
(* encode and decode called with arguments that need not match the         *)
(* codebook: a symbol list other than the one trained on, and a bit string *)
(* as it arrives at the receiver (Receptor.py).                            *)
(***************************************************************************)
\* longest symbol list trained on when the calls below follow
MaxTrain == 3

\* longest symbol list given to encode
MaxMsg == 3

\* longest bit string given to decode
MaxStream == 5

TrainSeqs == UNION {[1..L -> Symbols] : L \in 0..MaxTrain}

MsgSeqs == UNION {[1..L -> Symbols] : L \in 0..MaxMsg}

\* encode(data, codebook) for any symbol list
EncodeWith(data) ==
    /\ codebook.status = "ok"
    /\ hbits.status = "none" /\ hout.status = "none"
    /\ hbits' = [data |-> data] @@ huf_encode(data, codebook.codebook)
    /\ UNCHANGED <<hsrc, codebook, hout>>
    /\ UNCHANGED <<hammingVars, packVars, linkVars>>

\* decoded_adc_values = huf_decode(huffman_bits_corrected_str, codebook_int)
DecodeReceived(bits) ==
    /\ codebook.status = "ok"
    /\ hbits.status = "none" /\ hout.status = "none"
    /\ hout' = [input |-> bits] @@ huf_decode(bits, codebook.codebook)
    /\ UNCHANGED <<hsrc, codebook, hbits>>
    /\ UNCHANGED <<hammingVars, packVars, linkVars>>

NextHuffmanCalls ==
    \/ \E data \in TrainSeqs : Train(data)
    \/ \E data \in MsgSeqs : EncodeWith(data)
    \/ \E bits \in BitSeqsUpTo(MaxStream) : DecodeReceived(bits)

SpecHuffmanCalls == InitHuffman /\ [][NextHuffmanCalls]_vars

(***************************************************************************)
(* decode and encode with a codebook that was not trained here but arrived *)
(* in a message (Receptor.py: message.get("codebook")): any dictionary     *)
(* whose codes are prefix-free.                                            *)
(***************************************************************************)
\* longest code of a received codebook
MaxCode == 2

\* keys of a received codebook, in the order of the dictionary
WireKeys == <<2, 5, 9>>

\* no code is a prefix of another one (nor equal to it)
PrefixFree(codes) ==
    \A i, j \in 1..Len(codes) : (i # j) => ~IsPrefix(codes[i], codes[j])

\* the dictionaries of at most Len(WireKeys) entries with prefix-free codes of at most
\* MaxCode bits; the empty dictionary and the empty code included
WireCodebooks ==
    UNION {{[i \in 1..L |-> [key |-> WireKeys[i], val |-> codes[i]]] :
               codes \in {c \in [1..L -> BitSeqsUpTo(MaxCode)] : PrefixFree(c)}} :
           L \in 0..Len(WireKeys)}

\* codebook_int = {int(k): v for k, v in codebook.items()}
LoadCodebook(cb) ==
    /\ codebook.status = "none"
    /\ codebook' = [status |-> "ok", error |-> "", codebook |-> cb]
    /\ UNCHANGED <<hsrc, hbits, hout>>
    /\ UNCHANGED <<hammingVars, packVars, linkVars>>

\* encode(decode(bits, cb), cb): the symbols decode returned, encoded again
ReEncode ==
    /\ hout.status = "ok" /\ "input" \in DOMAIN hout
    /\ hbits.status = "none"
    /\ hbits' = [data |-> hout.symbols] @@ huf_encode(hout.symbols, codebook.codebook)
    /\ UNCHANGED <<hsrc, codebook, hout>>
    /\ UNCHANGED <<hammingVars, packVars, linkVars>>

NextHuffmanWire ==
    \/ \E cb \in WireCodebooks : LoadCodebook(cb)
    \/ \E bits \in BitSeqsUpTo(MaxStream) : DecodeReceived(bits)
    \/ ReEncode

SpecHuffmanWire == InitHuffman /\ [][NextHuffmanWire]_vars

(***************************************************************************)
(* The packer in use: bits_to_bytes, then bytes_to_bits with the padding   *)
(* it returned or with any other padding count.                            *)
(***************************************************************************)
\* longest bit string given to bits_to_bytes
MaxBits == 9

\* largest padding count given to bytes_to_bits
MaxPad == 17

InitPack ==
    /\ PackIdle
    /\ HammingIdle
    /\ HuffmanIdle
    /\ LinkIdle

\* data, padding = bits_to_bytes(bits)
Pack(bits) ==
    /\ packed.status = "none"
    /\ pbits' = bits
    /\ packed' = [status |-> "ok"] @@ bits_to_bytes(bits)
    /\ UNCHANGED unpacked
    /\ UNCHANGED <<hammingVars, huffmanVars, linkVars>>

\* bits = bytes_to_bits(data, padding)
Unpack(padding) ==
    /\ packed.status = "ok"
    /\ unpacked' = [padding |-> padding] @@ bytes_to_bits(packed.bytes, padding)
    /\ UNCHANGED <<pbits, packed>>
    /\ UNCHANGED <<hammingVars, huffmanVars, linkVars>>

NextPack ==
    \/ \E bits \in BitSeqsUpTo(MaxBits) : Pack(bits)
    \/ Unpack(packed.padding)
    \/ \E padding \in 0..MaxPad : Unpack(padding)

SpecPack == InitPack /\ [][NextPack]_vars

(***************************************************************************)
(* Filtrado.py.  A float array is kept exact: integer numerators over one  *)
(* denominator.                                                            *)
(***************************************************************************)
ADC_RESOLUTION_BITS == 10

ADC_MAX_VALUE == Pow2(ADC_RESOLUTION_BITS) - 1

REFERENCE_VOLTAGE == 5

\* (raw_array / ADC_MAX_VALUE) * REFERENCE_VOLTAGE
adc_to_voltage(raw_array) ==
    [num |-> [i \in 1..Len(raw_array) |-> raw_array[i] * REFERENCE_VOLTAGE],
     den |-> ADC_MAX_VALUE]

RECURSIVE window_sum(_, _, _)
window_sum(a, i, window) ==
    IF window = 0 THEN 0 ELSE a[i] + window_sum(a, i + 1, window - 1)

\* np.convolve(data_array, np.ones(window) / window, mode='valid') for an array of at
\* least window values: len(data_array) - window + 1 means
apply_moving_average_filter(data_array, window) ==
    [num |-> [i \in 1..(Len(data_array.num) - window + 1) |->
                 window_sum(data_array.num, i, window)],
     den |-> data_array.den * window]

\* np.round: to the nearest integer, a tie to the even one
np_round(num, den) ==
    LET q == num \div den
        r == num % den
    IN  IF 2 * r < den THEN q
        ELSE IF 2 * r > den THEN q + 1
        ELSE IF q % 2 = 0 THEN q ELSE q + 1

\* np.round((voltage_array / REFERENCE_VOLTAGE) * ADC_MAX_VALUE).astype(int)
voltage_to_adc(voltage_array) ==
    [i \in 1..Len(voltage_array.num) |->
        np_round(voltage_array.num[i] * ADC_MAX_VALUE, voltage_array.den * REFERENCE_VOLTAGE)]

\* calculate_entropy: -sum(p * log2(p)) over the relative frequencies of the values of
\* the array.  The sum is a real number; it is kept as the counts it is computed from
\* (np.unique(message_array, return_counts=True)).
calculate_entropy(message_array) ==
    [v \in {message_array[i] : i \in 1..Len(message_array)} |->
        Cardinality({i \in 1..Len(message_array) : message_array[i] = v})]

(***************************************************************************)
(* json.dumps / json.loads of the message: the integer keys of the         *)
(* codebook become strings of decimal digits; the Receptor turns them back *)
(* with int(k).                                                            *)
(***************************************************************************)
\* str(v) for v >= 0: the decimal digits, most significant first
RECURSIVE str_int(_)
str_int(v) == IF v < 10 THEN <<v>> ELSE Append(str_int(v \div 10), v % 10)

\* int(k) for a string of decimal digits
RECURSIVE int_str(_)
int_str(k) ==
    IF Len(k) = 0 THEN 0 ELSE 10 * int_str(SubSeq(k, 1, Len(k) - 1)) + k[Len(k)]

\* json.loads(json.dumps(message))
json_dumps(message) ==
    [message EXCEPT !.codebook =
        [i \in 1..Len(@) |-> [key |-> str_int(@[i].key), val |-> @[i].val]]]

\* codebook_int = {int(k): v for k, v in codebook.items()}
codebook_int(cb) ==
    [i \in 1..Len(cb) |-> [key |-> int_str(cb[i].key), val |-> cb[i].val]]

(***************************************************************************)
(* Emisor.py handle_connection and Receptor.py receive_message, connected  *)
(* by a websocket.  The sender's Hamming instance is codec, the receiver's *)
(* is peer.                                                                *)
(***************************************************************************)
\* samples per block (Emisor.py: 100)
BLOCK_SIZE == 6

WINDOW == 5

\* EMIT_Q = Queue(maxsize=..) (Emisor.py: 50)
EMIT_Q_maxsize == 1

HAMMING_K == 4

HAMMING_N == 7

\* samples read by one connection handler
MaxSamples == 13

\* values read from the sensor (or simulated)
SampleValues == {520, 523}

\* Queue.put_nowait(item): raises queue.Full when the queue holds maxsize items
put_nowait(queue, item) ==
    IF Len(queue) >= EMIT_Q_maxsize
    THEN [raised |-> "Full", queue |-> queue]
    ELSE [raised |-> "", queue |-> Append(queue, item)]

\* variant: the exception of put_nowait is not caught
try_put_nowait_uncaught(queue, item) == put_nowait(queue, item)

\* try: EMIT_Q.put_nowait({...})  except Exception: pass
try_put_nowait(queue, item) == [put_nowait(queue, item) EXCEPT !.raised = ""]

\* block = np.array(buffer[:BLOCK_SIZE])
buffer_block(buffer) == SubSeq(buffer, 1, Min(BLOCK_SIZE, Len(buffer)))

\* buffer = buffer[BLOCK_SIZE:]
buffer_rest(buffer) == SubSeq(buffer, BLOCK_SIZE + 1, Len(buffer))

\* one block from filtering to the message, on the handler's Hamming instance: the
\* EMIT_Q report, train_codebook, huf_encode, hamming.encode, the message dictionary.
\* error names the exception that leaves the loop before the send, if any.
process_block(hamming, block, queue) ==
    LET entropy == calculate_entropy(block)
        volt == adc_to_voltage(block)
        filtered == apply_moving_average_filter(volt, WINDOW)
        filtered_adc == voltage_to_adc(filtered)
        put == try_put_nowait(queue, [filtered_adc |-> filtered_adc,
                                      emitted_volt |-> adc_to_voltage(filtered_adc)])
        fuente == filtered_adc
        cb == train_codebook(fuente)
        encoded_huffman_bits_str == huf_encode(fuente, cb.codebook)
        bits_list == encoded_huffman_bits_str.bits
    IN  [error |-> IF put.raised # "" THEN put.raised
                   ELSE IF cb.status = "error" THEN cb.error
                   ELSE IF encoded_huffman_bits_str.status = "error"
                        THEN encoded_huffman_bits_str.error
                   ELSE "",
         queue |-> put.queue,
         reported |-> Len(put.queue) > Len(queue),
         fuente |-> fuente,
         data_length |-> encode_data_length(bits_list),
         message |-> [entropy |-> entropy,
                      codebook |-> cb.codebook,
                      hamming |-> encode_bits(hamming, bits_list),
                      huffman_length |-> Len(bits_list)]]

\* one message in the Receptor, from json.loads to the recovered ADC values.  status
\* "raised" is an exception that leaves the while loop (caught by the outer except),
\* "ignored" and "huffman_error" are the two `continue` statements.
process_message(hamming, message) ==
    IF Len(message.codebook) = 0 \/ Len(message.hamming) = 0
    THEN [status |-> "ignored", error |-> "", symbols |-> <<>>, corrected |-> 0]
    ELSE LET d == decode_call(hamming, message.hamming, {"data_length"})
         IN  IF d.status = "error"
             THEN [status |-> "raised", error |-> d.error, symbols |-> <<>>, corrected |-> 0]
             ELSE LET h == huf_decode(d.bits, codebook_int(message.codebook))
                  IN  IF h.status = "error"
                      THEN [status |-> "huffman_error", error |-> h.error,
                            symbols |-> <<>>, corrected |-> d.corrected]
                      ELSE [status |-> "ok", error |-> "",
                            symbols |-> h.symbols, corrected |-> d.corrected]

\* accepted, blocks and sends record what the handler did: the samples appended to the
\* buffer, the blocks cut from it, and the websocket.send calls
NewEmisor ==
    [pc |-> "running", error |-> "", buffer |-> <<>>, accepted |-> <<>>,
     blocks |-> <<>>, sends |-> <<>>]

\* handled records the outcome of every message taken from the websocket
NewReceptor(pc, error) == [pc |-> pc, error |-> error, handled |-> <<>>]

InitLink ==
    /\ LinkIdle
    /\ HammingIdle
    /\ HuffmanIdle
    /\ PackIdle

\* Receptor.py: hamming = Hamming(k=HAMMING_K, n=HAMMING_N); websockets.connect(uri).
\* The uri names port 8765 and Emisor.main serves on 8766: whether the Emisor answers
\* at the uri is the environment's choice.  When it does, handle_connection starts with
\* hamming = Hamming(k=4, n=7) and an empty buffer; when not, ConnectionRefusedError.
Connect(answered) ==
    /\ emisor.pc = "none" /\ receptor.pc = "none"
    /\ peer' = Hamming(HAMMING_K, HAMMING_N)
    /\ IF answered
       THEN /\ codec' = Hamming(4, 7)
            /\ emisor' = NewEmisor
            /\ receptor' = NewReceptor("waiting", "")
       ELSE /\ receptor' = NewReceptor("stopped", "ConnectionRefusedError")
            /\ UNCHANGED <<codec, emisor>>
    /\ UNCHANGED <<EMIT_Q, wire>>
    /\ UNCHANGED <<tx, rx, result, channel, huffmanVars, packVars>>

\* one iteration of the while loop of handle_connection.  value is None when the line
\* read is not a number.  websocket.send raises when the Receptor has left its loop and
\* closed the connection.
Iteration(value) ==
    /\ emisor.pc = "running"
    /\ Len(emisor.accepted) < MaxSamples
    /\ IF value = None
       THEN UNCHANGED <<codec, emisor, EMIT_Q, wire>>
       ELSE LET buffer == Append(emisor.buffer, value[1])
                accepted == Append(emisor.accepted, value[1])
            IN  IF Len(buffer) < BLOCK_SIZE
                THEN /\ emisor' = [emisor EXCEPT !.buffer = buffer, !.accepted = accepted]
                     /\ UNCHANGED <<codec, EMIT_Q, wire>>
                ELSE LET block == buffer_block(buffer)
                         r == process_block(codec, block, EMIT_Q)
                         open == receptor.pc = "waiting"
                         done == [emisor EXCEPT !.buffer = buffer_rest(buffer),
                                                !.accepted = accepted,
                                                !.blocks = Append(@, block)]
                     IN  /\ EMIT_Q' = r.queue
                         /\ IF r.error # ""
                            THEN /\ emisor' = [done EXCEPT !.pc = "stopped",
                                                           !.error = r.error]
                                 /\ UNCHANGED <<codec, wire>>
                            ELSE /\ codec' = [codec EXCEPT !.data_length = r.data_length]
                                 /\ emisor' =
                                       [done EXCEPT
                                          !.pc = IF open THEN "running" ELSE "stopped",
                                          !.error = IF open THEN "" ELSE "ConnectionClosed",
                                          !.sends = Append(@, [block |-> block,
                                                               fuente |-> r.fuente,
                                                               reported |-> r.reported,
                                                               delivered |-> open])]
                                 /\ wire' = IF open
                                            THEN Append(wire, json_dumps(r.message))
                                            ELSE wire
    /\ UNCHANGED <<peer, receptor>>
    /\ UNCHANGED <<tx, rx, result, channel, huffmanVars, packVars>>

\* visualizador.py: rep = self.emit_q.get_nowait()
Consume ==
    /\ Len(EMIT_Q) > 0
    /\ EMIT_Q' = Tail(EMIT_Q)
    /\ UNCHANGED <<emisor, wire, receptor>>
    /\ UNCHANGED <<hammingVars, huffmanVars, packVars>>

\* one iteration of the while loop of receive_message: message_json = await
\* websocket.recv() to the summary of the block
Receive ==
    /\ receptor.pc = "waiting"
    /\ Len(wire) > 0
    /\ LET outcome == process_message(peer, Head(wire))
       IN  receptor' = [receptor EXCEPT
                          !.pc = IF outcome.status = "raised" THEN "stopped" ELSE "waiting",
                          !.error = IF outcome.status = "raised" THEN outcome.error ELSE "",
                          !.handled = Append(@, outcome)]
    /\ wire' = Tail(wire)
    /\ UNCHANGED <<emisor, EMIT_Q>>
    /\ UNCHANGED <<hammingVars, huffmanVars, packVars>>

NextLink ==
    \/ \E answered \in BOOLEAN : Connect(answered)
    \/ \E value \in {None} \cup {Some(v) : v \in SampleValues} : Iteration(value)
    \/ Consume
    \/ Receive

SpecLink == InitLink /\ [][NextLink]_vars

(***************************************************************************)
(* Properties.                                                             *)
(***************************************************************************)
\* a decode call on the instance that encoded, on a stream it encoded
DecodedBySender == result.status # "none" /\ result.by = "codec" /\ rx.origin = "encode"

\* C1: under SpecRoundTrip (one encode, the stream unmodified, decode on the same
\* instance), for Hamming(7,4), (15,11), (31,26) and (3,1) decode returns exactly the
\* bits given to encode, padding removed, with a correction count of 0.
C1_RoundTripSameInstance ==
    (DecodedBySender /\ rx.noise = {}) =>
        /\ result.status = "ok"
        /\ result.bits = rx.data
        /\ result.corrected = 0

\* C1 witness: Hamming(31,26) has decoded a stream made from k-1 = 25 data bits
C1_Witness ==
    /\ DecodedBySender
    /\ codec.n = 31
    /\ Len(rx.data) = codec.k - 1
    /\ Len(rx.bits) = 31
    /\ result.bits = rx.data
    /\ result.corrected = 0

\* the blocks of a stream of n-bit blocks in which the noise flipped a bit
FlippedBlocks(noise, n) == {p \div n : p \in noise}

AtMostOnePerBlock(noise, n) ==
    \A p \in noise : \A q \in noise : (p # q) => (p \div n # q \div n)

\* C2: when at most one bit is flipped in every n-bit block of encode(data), decode on
\* the same instance returns data and counts exactly the blocks that had a flipped bit.
C2_SingleErrorCorrected ==
    (DecodedBySender /\ AtMostOnePerBlock(rx.noise, codec.n)) =>
        /\ result.status = "ok"
        /\ result.bits = rx.data
        /\ result.corrected = Cardinality(FlippedBlocks(rx.noise, codec.n))

\* C2 witness: k=4, n=7, data=[1,0,1,1], encoded bit 3 flipped, decoded ([1,0,1,1], 1)
C2_Witness ==
    /\ DecodedBySender
    /\ codec.k = 4 /\ codec.n = 7
    /\ rx.data = <<1, 0, 1, 1>>
    /\ rx.noise = {3}
    /\ rx.bits # tx.bits
    /\ result.bits = <<1, 0, 1, 1>>
    /\ result.corrected = 1

\* C3 (as claimed): decoding the unmodified stream of encode(A) on the instance that
\* encoded it returns exactly A, whatever encode calls the instance served in between.
C3_LengthTravelsWithPayload ==
    (DecodedBySender /\ rx.noise = {} /\ result.status = "ok") => result.bits = rx.data

\* C4 (as claimed): a stream encoded by the sender and decoded by a second instance of
\* the same (n,k) that never encoded, by decode(received) or by the receiver's call
\* decode(received, data_length=...), yields exactly the original data bits.
C4_DecodedByOtherInstance ==
    (result.by \in {"peer", "receptor"} /\ rx.origin = "encode" /\ rx.noise = {}) =>
        /\ result.status = "ok"
        /\ result.bits = rx.data

\* the feasibility bound of the construction: n > k > 0 and 2^m - m - 1 >= k, m = n - k
Feasible(k, n) == n > k /\ k > 0 /\ Pow2(n - k) - (n - k) - 1 >= k

\* C5 (as claimed): every (n,k) within the feasibility bound, shortened codes such as
\* (6,3) included, gives a constructed codec, and encode followed by decode returns
\* (bits, 0).
C5_FeasibleConstructsAndRoundTrips ==
    Feasible(codec.k, codec.n) =>
        /\ codec.constructed
        /\ (DecodedBySender /\ rx.noise = {}) =>
              (result.status = "ok" /\ result.bits = rx.data /\ result.corrected = 0)

\* C6: for every non-empty symbol list seq and cb = train_codebook(seq), encode(seq, cb)
\* succeeds and decode(encode(seq, cb), cb) succeeds and equals seq.
C6_HuffmanRoundTrip ==
    /\ (Len(hsrc) > 0 /\ hbits.status # "none") => hbits.status = "ok"
    /\ (Len(hsrc) > 0 /\ hout.status # "none") =>
          (hout.status = "ok" /\ hout.symbols = hsrc)

\* C6 witness: [5,5,5,2,2,9] has been trained on, encoded and decoded back
C6_Witness ==
    /\ hsrc = <<5, 5, 5, 2, 2, 9>>
    /\ hbits.status = "ok"
    /\ Len(hbits.bits) = 9
    /\ hout.status = "ok"
    /\ hout.symbols = <<5, 5, 5, 2, 2, 9>>

\* C7: every codebook train_codebook returns gives each symbol a code of length >= 1,
\* and no symbol's code is a prefix of (or equal to) another symbol's code.
C7_PrefixFree ==
    codebook.status = "ok" =>
        LET cb == codebook.codebook
        IN  /\ Len(cb) >= 1
            /\ \A i \in 1..Len(cb) : Len(cb[i].val) >= 1
            /\ \A i \in 1..Len(cb) : \A j \in 1..Len(cb) :
                  (i # j) => (cb[i].key # cb[j].key /\ ~IsPrefix(cb[i].val, cb[j].val))

\* C7 witness: a codebook of four symbols with codes of lengths 1, 2 and 3
C7_Witness ==
    /\ codebook.status = "ok"
    /\ Len(codebook.codebook) = 4
    /\ {Len(codebook.codebook[i].val) : i \in 1..4} = {1, 2, 3}

\* the last bytes_to_bits call was given the bytes and the padding of bits_to_bytes
UnpackedWithOwnPadding == unpacked.status # "none" /\ unpacked.padding = packed.padding

\* C8: bytes_to_bits(*bits_to_bytes(bits)) == bits for every bit string of length 0..MaxBits
\* (0, 1, 7, 8 and 9 among them).
C8_PackRoundTrip ==
    UnpackedWithOwnPadding => (unpacked.status = "ok" /\ unpacked.bits = pbits)

\* C8 witness: a 9-bit string (two bytes, padding 7) has been unpacked to itself
C8_Witness ==
    /\ UnpackedWithOwnPadding
    /\ Len(pbits) = 9
    /\ Len(packed.bytes) = 2
    /\ packed.padding = 7
    /\ unpacked.bits = pbits

\* C9 (as claimed): bytes_to_bits fails whenever the padding count exceeds the number
\* of bits in the buffer, 8 * len(data).
C9_InvalidPaddingFails ==
    (unpacked.status # "none" /\ unpacked.padding > 8 * Len(packed.bytes)) =>
        unpacked.status = "error"

\* C10: decode(received) on a constructed instance raises exactly when len(received) is
\* not a multiple of n, and then yields no bits and no count; a multiple of n, 0
\* included, does not raise.
C10_MisalignedLengthFails ==
    (result.status # "none" /\ result.by \in {"codec", "peer"}) =>
        /\ (result.status = "error") <=> (Len(rx.bits) % Instance(result.by).n # 0)
        /\ (result.status = "error") =>
              (result.error = "ValueError" /\ result.bits = <<>> /\ result.corrected = 0)

\* C10 witness: Hamming(7,4) was handed 8 bits and raised
C10_Witness ==
    /\ result.status = "error"
    /\ result.by = "codec"
    /\ codec.n = 7
    /\ Len(rx.bits) = 8

\* C11 (as claimed): a decode call whose truncation length (self.data_length) exceeds
\* the number of decoded data bits, k times the number of received blocks, fails with
\* an error instead of returning a shorter result.
C11_LengthMismatchFails ==
    (/\ result.status # "none"
     /\ result.by \in {"codec", "peer"}
     /\ Len(rx.bits) % Instance(result.by).n = 0
     /\ result.length > Instance(result.by).k * (Len(rx.bits) \div Instance(result.by).n)) =>
        result.status = "error"

\* the number of positions at which two bit lists differ
DiffCount(a, b) == Cardinality({i \in 1..Min(Len(a), Len(b)) : a[i] # b[i]})

\* the noise positions that fall on the first k bits of an n-bit block
DataFlips(noise, k, n) == {p \in noise : p % n < k}

C13_AnyNoiseKeepsLength ==
    DecodedBySender =>
        /\ result.status = "ok"
        /\ Len(result.bits) = Len(rx.data)

\* C13 witness: k=4, n=7, three data bits, all seven encoded bits flipped, three bits
\* returned that are not the data
C13_Witness ==
    /\ DecodedBySender
    /\ codec.k = 4 /\ codec.n = 7
    /\ Len(rx.data) = 3
    /\ rx.noise = 0..6
    /\ result.status = "ok"
    /\ Len(result.bits) = 3
    /\ result.bits # rx.data

\* the symbols that occur in a list
SymbolsOf(seq) == {seq[i] : i \in 1..Len(seq)}

\* the number of occurrences of a symbol in a list
Occurrences(seq, sym) == Cardinality({i \in 1..Len(seq) : seq[i] = sym})

\* C14: training on a list with exactly one distinct symbol gives the codebook
\* {symbol: "0"}; encode then gives one 0 per symbol and decode gives the list back.
C14_SingleSymbol ==
    (Cardinality(SymbolsOf(hsrc)) = 1) =>
        /\ codebook.status # "none" =>
              /\ codebook.status = "ok"
              /\ codebook.codebook = <<[key |-> hsrc[1], val |-> <<0>>]>>
        /\ hbits.status # "none" =>
              (hbits.status = "ok" /\ hbits.bits = zeros(Len(hsrc)))
        /\ hout.status # "none" =>
              (hout.status = "ok" /\ hout.symbols = hsrc)

\* C14 witness: [9,9,9] trained on, encoded to 000 and decoded back
C14_Witness ==
    /\ hsrc = <<9, 9, 9>>
    /\ codebook.status = "ok"
    /\ codebook.codebook = <<[key |-> 9, val |-> <<0>>]>>
    /\ hbits.status = "ok"
    /\ hbits.bits = <<0, 0, 0>>
    /\ hout.status = "ok"
    /\ hout.symbols = <<9, 9, 9>>

\* C15: in a trained codebook a symbol that occurs strictly more often than another
\* never has the longer code; training on [5,5,5,2,2,9] gives 5 a code no longer than
\* any other.
C15_FrequentNotLonger ==
    codebook.status = "ok" =>
        LET cb == codebook.codebook
        IN  \A i \in 1..Len(cb) : \A j \in 1..Len(cb) :
                (Occurrences(hsrc, cb[i].key) > Occurrences(hsrc, cb[j].key)) =>
                    Len(cb[i].val) <= Len(cb[j].val)

\* C15 witness: [5,5,5,2,2,9] trained on; 5 has a one-bit code, 2 and 9 two-bit codes
C15_Witness ==
    /\ hsrc = <<5, 5, 5, 2, 2, 9>>
    /\ codebook.status = "ok"
    /\ Len(dict_get(codebook.codebook, 5)) = 1
    /\ Len(dict_get(codebook.codebook, 2)) = 2
    /\ Len(dict_get(codebook.codebook, 9)) = 2

\* bits is a concatenation of codes of the codebook
RECURSIVE Parses(_, _)
Parses(bits, cb) ==
    \/ Len(bits) = 0
    \/ \E i \in 1..Len(cb) :
          /\ IsPrefix(cb[i].val, bits)
          /\ Parses(SubSeq(bits, Len(cb[i].val) + 1, Len(bits)), cb)

\* the codes of a list of symbols of the codebook, one after the other
RECURSIVE ConcatCodes(_, _)
ConcatCodes(seq, cb) ==
    IF Len(seq) = 0 THEN <<>> ELSE dict_get(cb, Head(seq)) \o ConcatCodes(Tail(seq), cb)

\* C16: with a trained codebook, decode raises exactly when the input is not a
\* concatenation of codes, that is when bits are left unmatched at its end; otherwise,
\* the empty input included, it returns the symbols whose codes make up the input.
C16_DecodeFailsOnLeftover ==
    (hout.status # "none" /\ "input" \in DOMAIN hout) =>
        LET cb == codebook.codebook
        IN  /\ (hout.status = "error") <=> ~Parses(hout.input, cb)
            /\ (hout.status = "error") => (hout.error = "ValueError" /\ hout.symbols = <<>>)
            /\ (hout.status = "ok") =>
                  /\ SymbolsOf(hout.symbols) \subseteq SymbolsOf(hsrc)
                  /\ ConcatCodes(hout.symbols, cb) = hout.input

\* C16 witness: codes of lengths 1, 2, 2; a five-bit input that starts with a code and
\* ends in an unmatched bit raised
C16_Witness ==
    /\ hout.status = "error"
    /\ Len(codebook.codebook) = 3
    /\ Len(hout.input) = 5
    /\ \E i \in 1..3 : IsPrefix(codebook.codebook[i].val, hout.input)

\* C17: encode raises exactly when the list holds a symbol that is not a key of the
\* codebook; the error names such a symbol and no bits are returned; otherwise it
\* returns the codes of the symbols in order.
C17_EncodeFailsOnUnknown ==
    (hbits.status # "none" /\ "data" \in DOMAIN hbits) =>
        LET cb == codebook.codebook
            unknown == {sym \in SymbolsOf(hbits.data) : ~dict_has(cb, sym)}
        IN  /\ (hbits.status = "error") <=> (unknown # {})
            /\ (hbits.status = "error") =>
                  /\ hbits.error = "ValueError"
                  /\ hbits.bits = <<>>
                  /\ hbits.symbol # None
                  /\ hbits.symbol[1] \in unknown
            /\ (hbits.status = "ok") => hbits.bits = ConcatCodes(hbits.data, cb)

\* C17 witness: a list whose first symbol is in the codebook and whose second is not
C17_Witness ==
    /\ hbits.status = "error"
    /\ Len(hbits.data) >= 2
    /\ dict_has(codebook.codebook, hbits.data[1])
    /\ ~dict_has(codebook.codebook, hbits.data[2])
    /\ hbits.symbol = Some(hbits.data[2])

\* C18: train_codebook raises exactly when the list is empty and then returns no
\* codebook; for a non-empty list it returns a codebook whose keys are the symbols of
\* the list.
C18_TrainFailsOnEmpty ==
    codebook.status # "none" =>
        /\ (codebook.status = "error") <=> (Len(hsrc) = 0)
        /\ (codebook.status = "error") =>
              (codebook.error = "ValueError" /\ codebook.codebook = <<>>)
        /\ (codebook.status = "ok") =>
              {codebook.codebook[i].key : i \in 1..Len(codebook.codebook)} = SymbolsOf(hsrc)

\* C18 witness: the empty list was given to train_codebook and it raised
C18_Witness ==
    /\ hsrc = <<>>
    /\ codebook.status = "error"
    /\ codebook.error = "ValueError"

\* outside the bound of the construction: n <= k, or fewer than k vectors for P
Infeasible(k, n) == n <= k \/ Pow2(n - k) - (n - k) - 1 < k

\* C19: Hamming(k, n) with n <= k or 2^(n-k) - (n-k) - 1 < k raises during
\* construction; no instance exists, so nothing is ever encoded or decoded with it.
C19_InfeasibleFailsToConstruct ==
    Infeasible(codec.k, codec.n) =>
        /\ ~codec.constructed
        /\ codec.error \in {"AssertionError", "ValueError"}
        /\ ~tx.full
        /\ result.status = "none"

\* C19 witness: Hamming(k=5, n=7), where m = 2 gives one vector for P and k is 5
C19_Witness ==
    /\ codec.k = 5 /\ codec.n = 7
    /\ ~codec.constructed
    /\ codec.error = "ValueError"

\* C20: for L data bits encode returns ceil(L/k) * n bits; the i-th n-bit block starts
\* with the i-th k-bit block of the data right-padded with zeros (the code is
\* systematic) and has syndrome zero, so it is the codeword of that block.
C20_EncodePadsAndBlocks ==
    tx.full =>
        LET L == Len(tx.data)
            k == codec.k
            n == codec.n
            blocks == (L + k - 1) \div k
            padded == tx.data \o zeros(blocks * k - L)
        IN  /\ Len(tx.bits) = blocks * n
            /\ \A i \in 0..(blocks - 1) :
                  LET c == SubSeq(tx.bits, i * n + 1, (i + 1) * n)
                  IN  /\ SubSeq(c, 1, k) = SubSeq(padded, i * k + 1, (i + 1) * k)
                      /\ dot_mat_vec(codec.H, c) = zeros(codec.m)

\* C20 witness: k=4, n=7, six data bits ending in 1 encoded to 14 bits
C20_Witness ==
    /\ tx.full
    /\ codec.k = 4 /\ codec.n = 7
    /\ tx.data = <<0, 0, 0, 0, 0, 1>>
    /\ Len(tx.bits) = 14
    /\ SubSeq(tx.bits, 8, 11) = <<0, 1, 0, 0>>

\* bit number i (0-based) of a bit string, 0 beyond its end
BitAt(bits, i) == IF i < Len(bits) THEN bits[i + 1] ELSE 0

\* the value of the byte holding bits 8j .. 8j+7, the first of them most significant
ByteValue(bits, j) ==
    SumSeq([i \in 1..8 |-> BitAt(bits, 8 * j + i - 1) * Pow2(8 - i)])

\* C21: for a bit string of length L, bits_to_bytes returns the padding count
\* (8 - L mod 8) mod 8, in 0..7, and ceil(L/8) bytes; byte j holds bits 8j..8j+7 most
\* significant first, the positions after the last bit being zero; the empty string
\* gives no bytes and padding 0.
C21_PackLayout ==
    packed.status = "ok" =>
        LET L == Len(pbits)
        IN  /\ packed.padding = (8 - (L % 8)) % 8
            /\ packed.padding \in 0..7
            /\ Len(packed.bytes) = (L + 7) \div 8
            /\ \A j \in 1..Len(packed.bytes) : packed.bytes[j] = ByteValue(pbits, j - 1)
            /\ (L = 0) => (packed.bytes = <<>> /\ packed.padding = 0)

\* C21 witness: the nine bits 101100001 packed into the bytes 176, 128 with padding 7
C21_Witness ==
    /\ packed.status = "ok"
    /\ pbits = <<1, 0, 1, 1, 0, 0, 0, 0, 1>>
    /\ packed.bytes = <<176, 128>>
    /\ packed.padding = 7

\* C22: transmit returns as many bits as it was given and a count equal to the number
\* of positions where the output differs from the input; with p = 0 the output is the
\* input and the count 0, with p = 1 every bit is flipped and the count is the length.
C22_ChannelCountsFlips ==
    (rx.full /\ rx.origin = "encode") =>
        /\ Len(rx.bits) = Len(tx.bits)
        /\ rx.flips = DiffCount(rx.bits, tx.bits)
        /\ (channel.p = 0) => (rx.bits = tx.bits /\ rx.flips = 0)
        /\ (channel.p = 100) =>
              /\ \A i \in 1..Len(tx.bits) : rx.bits[i] = 1 - tx.bits[i]
              /\ rx.flips = Len(tx.bits)

\* C22 witness: p = 1, the 7 bits of a nonzero (7,4) codeword all flipped, count 7
C22_Witness ==
    /\ rx.full
    /\ channel.p = 100
    /\ Len(tx.bits) = 7
    /\ tx.data = <<1, 0, 1, 1>>
    /\ rx.flips = 7
    /\ DiffCount(rx.bits, tx.bits) = 7

\* block number i (0-based) of a stream of blocks of the given size
BlockOf(stream, i, size) == SubSeq(stream, i * size + 1, (i + 1) * size)

\* a block with bit j (0-based) flipped
FlipBit(block, j) == [block EXCEPT ![j + 1] = 1 - block[j + 1]]

\* C23: in every constructed codec the n columns of H are nonzero and pairwise
\* distinct, the syndrome map has exactly n entries and maps column j to j, and
\* flipping bit j of any block encode produced gives the syndrome that maps to j.
C23_SyndromeMapBijective ==
    codec.constructed =>
        LET n == codec.n
            H == codec.H
            map == codec.syndrome_map
        IN  /\ \A j \in 0..(n - 1) : Column(H, j) # zeros(codec.m)
            /\ \A i \in 0..(n - 1) : \A j \in 0..(n - 1) :
                  (i # j) => (Column(H, i) # Column(H, j))
            /\ Cardinality(DOMAIN map) = n
            /\ \A j \in 0..(n - 1) : Column(H, j) \in DOMAIN map /\ map[Column(H, j)] = j
            /\ tx.full =>
                  \A i \in 0..((Len(tx.bits) \div n) - 1) : \A j \in 0..(n - 1) :
                      LET syndrome == dot_mat_vec(H, FlipBit(BlockOf(tx.bits, i, n), j))
                      IN  syndrome \in DOMAIN map /\ map[syndrome] = j

\* C23 witness: Hamming(15,11) with 15 map entries has encoded two blocks, not all zero
C23_Witness ==
    /\ codec.constructed
    /\ codec.n = 15
    /\ Cardinality(DOMAIN codec.syndrome_map) = 15
    /\ tx.full
    /\ Len(tx.bits) = 30
    /\ tx.bits # zeros(30)

\* C24: whenever the construction gets as far as G and H (n > k and the shapes fit),
\* G . H^T is zero modulo 2, so the only assertion that can fail is n > k; and every
\* n-bit block encode returns has an all-zero syndrome.
C24_GeneratorOrthogonalToParity ==
    /\ (codec.error = "AssertionError") => (codec.n <= codec.k)
    /\ codec.constructed =>
          /\ Len(codec.G) = codec.k
          /\ Len(codec.H) = codec.m
          /\ \A i \in 1..codec.k :
                dot_vec_mat(codec.G[i], Transpose(codec.H, codec.n), codec.m) = zeros(codec.m)
          /\ tx.full =>
                \A i \in 0..((Len(tx.bits) \div codec.n) - 1) :
                    dot_mat_vec(codec.H, BlockOf(tx.bits, i, codec.n)) = zeros(codec.m)

\* C24 witness: Hamming(31,26) has encoded 27 bits, the last of them 1, into two blocks
C24_Witness ==
    /\ codec.constructed
    /\ codec.n = 31
    /\ tx.full
    /\ tx.data = last_one(27)
    /\ Len(tx.bits) = 62

\* the blocks of a received stream whose syndrome is not zero
NonZeroSyndromeBlocks(self, stream) ==
    {i \in 0..((Len(stream) \div self.n) - 1) :
        dot_mat_vec(self.H, BlockOf(stream, i, self.n)) # zeros(self.m)}

\* C25: in a constructed codec every nonzero m-bit vector is a key of the syndrome map;
\* decode changes exactly one bit of each received block whose syndrome is nonzero and
\* none of the others, every block it leaves has syndrome zero, and corrected_errors is
\* the number of blocks whose syndrome was nonzero (no nonzero syndrome goes unfound).
C25_EveryNonZeroSyndromeCorrected ==
    /\ codec.constructed =>
          \A v \in BitSeqs(codec.m) : (v # zeros(codec.m)) => (v \in DOMAIN codec.syndrome_map)
    /\ (result.status = "ok" /\ result.by \in {"codec", "peer"}) =>
          LET self == Instance(result.by)
              nz == NonZeroSyndromeBlocks(self, rx.bits)
          IN  /\ Len(result.received) = Len(rx.bits)
              /\ \A i \in 0..((Len(rx.bits) \div self.n) - 1) :
                    LET before == BlockOf(rx.bits, i, self.n)
                        after == BlockOf(result.received, i, self.n)
                    IN  /\ DiffCount(before, after) = (IF i \in nz THEN 1 ELSE 0)
                        /\ dot_mat_vec(self.H, after) = zeros(self.m)
              /\ result.corrected = Cardinality(nz)

\* C25 witness: (7,4), two blocks received, one with two flipped bits and one intact:
\* one block changed in one place, count 1
C25_Witness ==
    /\ DecodedBySender
    /\ codec.n = 7
    /\ Len(rx.bits) = 14
    /\ rx.noise = {8, 13}
    /\ result.corrected = 1
    /\ DiffCount(result.received, rx.bits) = 1
    /\ BlockOf(result.received, 0, 7) = BlockOf(rx.bits, 0, 7)

\* the fields of an instance that __init__ sets and nothing else assigns
Artifacts(self) == <<self.G, self.H, self.P, self.syndrome_map, self.n, self.k, self.m>>

\* C26: no encode or decode call changes G, H, P, the syndrome map, n, k or m of an
\* instance; a decode call leaves the array it was given as it was (the corrections go
\* to its own copy) and an encode call leaves the data it was given as it was.
C26_ArtifactsAndArgumentsUntouched ==
    [][/\ Artifacts(codec') = Artifacts(codec)
       /\ Artifacts(peer') = Artifacts(peer)
       /\ (rx.full /\ (Decode("codec") \/ Decode("peer"))) => (rx'.bits = rx.bits)
       /\ (tx' # tx) => \A data \in DataSet(codec.k) : Encode(data) => (tx'.data = data)]_vars

\* C26 witness: a decode call has corrected a bit in its copy of a received stream, and
\* the stream handed to it is still what the channel delivered
C26_Witness ==
    /\ DecodedBySender
    /\ result.status = "ok"
    /\ result.corrected = 1
    /\ result.received # rx.bits
    /\ rx.bits = transmit(tx.bits, rx.noise)
    /\ Artifacts(codec) = Artifacts(Hamming(4, 7))

\* exactly two bits flipped, both in block b of a (7,4) stream decoded by its sender
TwoFlipsInBlock(b) ==
    /\ DecodedBySender
    /\ codec.k = 4 /\ codec.n = 7
    /\ Cardinality(rx.noise) = 2
    /\ \A p \in rx.noise : p \div 7 = b

\* the bits of block b (0-based, k bits a block) of a data list, as far as the list goes
DataOfBlock(bits, b, k) == SubSeq(bits, b * k + 1, Min((b + 1) * k, Len(bits)))

\* C28 (as claimed): with Hamming(7,4), two flipped bits inside one encoded block make
\* decode raise nothing, count exactly one correction, and return data bits for that
\* block that differ from the original ones.
C28_TwoFlipsChangeReturnedData ==
    \A b \in 0..1 :
        TwoFlipsInBlock(b) =>
            /\ result.status = "ok"
            /\ result.corrected = 1
            /\ DataOfBlock(result.bits, b, 4) # DataOfBlock(rx.data, b, 4)

\* C28 (amended): with Hamming(7,4), two flipped bits inside one encoded block make
\* decode raise nothing and count exactly one correction; the block it leaves is a
\* valid codeword other than the one sent and its k data bits differ from the padded
\* data block; the data bits returned for the block differ from the original ones
\* whenever the block holds k data bits (no padding).
C28_TwoFlipsMiscorrected ==
    \A b \in 0..1 :
        TwoFlipsInBlock(b) =>
            LET sent == BlockOf(tx.bits, b, 7)
                left == BlockOf(result.received, b, 7)
            IN  /\ result.status = "ok"
                /\ result.corrected = 1
                /\ dot_mat_vec(codec.H, left) = zeros(3)
                /\ left # sent
                /\ DiffCount(left, sent) = 3
                /\ SubSeq(left, 1, 4) # SubSeq(sent, 1, 4)
                /\ ((b + 1) * 4 <= Len(rx.data)) =>
                      DataOfBlock(result.bits, b, 4) # DataOfBlock(rx.data, b, 4)

\* C28 witness: data [1] (three padding bits), encoded bits 4 and 6 flipped; the decoder
\* flips bit 1, a padding position, counts one correction and returns [1]
C28_Witness ==
    /\ TwoFlipsInBlock(0)
    /\ rx.data = <<1>>
    /\ rx.noise = {4, 6}
    /\ result.corrected = 1
    /\ result.bits = <<1>>
    /\ BlockOf(result.received, 0, 7) # BlockOf(tx.bits, 0, 7)

\* the entries of a codebook whose code is not empty
RECURSIVE NonEmptyCodes(_)
NonEmptyCodes(cb) ==
    IF Len(cb) = 0 THEN <<>>
    ELSE (IF Len(Head(cb).val) = 0 THEN <<>> ELSE <<Head(cb)>>) \o NonEmptyCodes(Tail(cb))

\* C29: for a prefix-free codebook and any bit string, decode succeeds exactly when
\* the bit string is a concatenation of codes of the codebook, and encoding the
\* symbols a successful decode returned gives the bit string back.
C29_DecodeIffConcatenation ==
    (hout.status # "none" /\ "input" \in DOMAIN hout) =>
        LET cb == codebook.codebook
        IN  /\ PrefixFree([i \in 1..Len(cb) |-> cb[i].val])
            /\ (hout.status = "ok") <=> Parses(hout.input, NonEmptyCodes(cb))
            /\ (hout.status = "ok") => ConcatCodes(hout.symbols, cb) = hout.input
            /\ (hbits.status # "none") =>
                  /\ hbits.status = "ok"
                  /\ hbits.data = hout.symbols
                  /\ hbits.bits = hout.input

\* C29 witness: three codes of lengths 1, 2, 2; a five-bit input of three codes was
\* decoded and encoded again
C29_Witness ==
    /\ hout.status = "ok" /\ "input" \in DOMAIN hout
    /\ hbits.status = "ok"
    /\ Len(codebook.codebook) = 3
    /\ Len(hout.input) = 5
    /\ Len(hout.symbols) = 3

\* the blocks of a list one after the other
RECURSIVE Flatten(_)
Flatten(blocks) == IF Len(blocks) = 0 THEN <<>> ELSE Head(blocks) \o Flatten(Tail(blocks))

\* C27 (as claimed): every message the Emisor built and sent is, once the Receptor has
\* taken it from the websocket, Hamming-decoded with its huffman_length and
\* Huffman-decoded to exactly the symbols (filtered ADC values) the Emisor encoded, and
\* the Receptor goes on to wait for the next message.
C27_ReceptorRecoversFuente ==
    (receptor.pc # "none") =>
        \A i \in 1..Len(receptor.handled) :
            /\ receptor.handled[i].status = "ok"
            /\ receptor.handled[i].symbols = emisor.sends[i].fuente
            /\ receptor.pc = "waiting"

\* the number of websocket.send calls that returned
Delivered == Cardinality({i \in 1..Len(emisor.sends) : emisor.sends[i].delivered})

\* C30: in the loop of handle_connection the samples are cut into consecutive blocks
\* of exactly BLOCK_SIZE samples in arrival order: after an iteration the buffer holds
\* fewer than BLOCK_SIZE samples, the accepted samples are exactly the blocks followed
\* by the buffer (none lost, none duplicated), and websocket.send is called exactly
\* once per completed block, with the message of that block, whether or not EMIT_Q
\* took the report.  Every send returns while the handler runs; the one send that
\* raises (connection closed by the peer) is the last, and ends the handler.
C30_OneMessagePerBlock ==
    (emisor.pc # "none") =>
        /\ Len(emisor.buffer) < BLOCK_SIZE
        /\ \A i \in 1..Len(emisor.blocks) : Len(emisor.blocks[i]) = BLOCK_SIZE
        /\ emisor.accepted = Flatten(emisor.blocks) \o emisor.buffer
        /\ Len(emisor.sends) = Len(emisor.blocks)
        /\ \A i \in 1..Len(emisor.sends) :
              /\ emisor.sends[i].block = emisor.blocks[i]
              /\ Len(emisor.sends[i].fuente) = BLOCK_SIZE - WINDOW + 1
              /\ ~emisor.sends[i].delivered =>
                    (i = Len(emisor.sends) /\ emisor.pc = "stopped")
        /\ (emisor.pc = "running") => (Delivered = Len(emisor.blocks))
        /\ Len(wire) + Len(receptor.handled) = Delivered
        /\ Len(EMIT_Q) <= EMIT_Q_maxsize

\* C30 witness: two blocks completed, the second while EMIT_Q was full; both messages
\* were sent and a sample of a third block is in the buffer
C30_Witness ==
    /\ emisor.pc = "running"
    /\ Len(emisor.blocks) = 2
    /\ Len(emisor.buffer) = 1
    /\ emisor.sends[1].reported /\ emisor.sends[1].delivered
    /\ ~emisor.sends[2].reported /\ emisor.sends[2].delivered
    /\ Len(EMIT_Q) = EMIT_Q_maxsize

====
